---- MODULE Spec2Model ----
(***************************************************************************)
(* Model of toolsrc/src/vcpkg/visualstudio.cpp: enumeration of Visual      *)
(* Studio instances (get_visual_studio_instances), their ranking           *)
(* (preferred_first_comparator, SortedVector) and the resolution of        *)
(* toolsets (find_toolset_instances_preferred_first).                      *)
(*                                                                         *)
(* A path is a sequence of path segments; the filesystem is the set of     *)
(* existing paths plus the subset of them that are directories.            *)
(***************************************************************************)
EXTENDS Integers, Sequences, FiniteSets, TLC

VARIABLES
    files,              \* paths for which fs.exists() is true
    dirs,               \* paths for which fs.is_directory() is true
    pc,                 \* position of the run
    code_and_output,    \* exit code and output of the run of vswhere.exe
    instances,          \* get_visual_studio_instances: std::vector<VisualStudioInstance>
    sorted,             \* const SortedVector<VisualStudioInstance> sorted
    v140_is_available,  \* const bool v140_is_available
    idx,                \* position of the range-for over sorted (1-based)
    paths_examined,     \* std::vector<fs::path> paths_examined
    found_toolsets,     \* std::vector<Toolset> found_toolsets
    excluded_toolsets,  \* std::vector<Toolset> excluded_toolsets
    warning,            \* root paths printed by the language pack warning
    error_paths,        \* paths printed by "The following paths were examined:"
    result              \* the returned std::vector<Toolset>

vars == <<files, dirs, pc, code_and_output, instances, sorted, v140_is_available, idx,
          paths_examined, found_toolsets, excluded_toolsets, warning,
          error_paths, result>>

\* Largest number of <instance> records in the output of vswhere.exe.
MaxVswhereInstances == 2

(***************************************************************************)
(* Strings that the code compares with operator> or substr: their          *)
(* characters as ASCII codes.                                              *)
(***************************************************************************)
Chars ==
    [s \in {"16.0", "15.9", "14.0", "12.0", "15", "14", "12",
            "14.16", "14.10", "9.txt"} |->
        CASE s = "16.0"  -> <<49, 54, 46, 48>>
          [] s = "15.9"  -> <<49, 53, 46, 57>>
          [] s = "14.0"  -> <<49, 52, 46, 48>>
          [] s = "12.0"  -> <<49, 50, 46, 48>>
          [] s = "15"    -> <<49, 53>>
          [] s = "14"    -> <<49, 52>>
          [] s = "12"    -> <<49, 50>>
          [] s = "14.16" -> <<49, 52, 46, 49, 54>>
          [] s = "14.10" -> <<49, 52, 46, 49, 48>>
          [] s = "9.txt" -> <<57, 46, 116, 120, 116>>]

Min(a, b) == IF a < b THEN a ELSE b

\* std::string operator> : lexicographic comparison of the characters.
RECURSIVE CharsGreater(_, _)
CharsGreater(a, b) ==
    IF a = <<>> THEN FALSE
    ELSE IF b = <<>> THEN TRUE
    ELSE IF Head(a) # Head(b) THEN Head(a) > Head(b)
    ELSE CharsGreater(Tail(a), Tail(b))

StringGreater(l, r) == CharsGreater(Chars[l], Chars[r])

V_120 == "v120"
V_140 == "v140"
V_141 == "v141"

(***************************************************************************)
(* struct VisualStudioInstance                                             *)
(***************************************************************************)
ReleaseType == {"STABLE", "PRERELEASE", "LEGACY"}

\* Variant: the weights compared with < instead of >.
preferred_first_comparator_weights_ascending(left, right) ==
    IF left.release_type # right.release_type
    THEN (CASE left.release_type = "STABLE" -> 3
            [] left.release_type = "PRERELEASE" -> 2
            [] left.release_type = "LEGACY" -> 1)
         < (CASE right.release_type = "STABLE" -> 3
              [] right.release_type = "PRERELEASE" -> 2
              [] right.release_type = "LEGACY" -> 1)
    ELSE StringGreater(left.version, right.version)

get_preference_weight(type) ==
    CASE type = "STABLE"     -> 3
      [] type = "PRERELEASE" -> 2
      [] type = "LEGACY"     -> 1

preferred_first_comparator(left, right) ==
    IF left.release_type # right.release_type
    THEN get_preference_weight(left.release_type)
            > get_preference_weight(right.release_type)
    ELSE StringGreater(left.version, right.version)

VisualStudioInstance(root_path, version, release_type) ==
    [root_path |-> root_path, version |-> version, release_type |-> release_type]

\* version.substr(0, 2), as characters
major_version(vs_instance) ==
    SubSeq(Chars[vs_instance.version], 1, Min(2, Len(Chars[vs_instance.version])))

(***************************************************************************)
(* Filesystem                                                              *)
(***************************************************************************)
exists(path) == path \in files

is_directory(path) == path \in dirs

parent_path(path) == IF path = <<>> THEN <<>> ELSE SubSeq(path, 1, Len(path) - 1)

filename(path) == path[Len(path)]

get_files_non_recursive(dir) ==
    {p \in files : Len(p) = Len(dir) + 1 /\ parent_path(p) = dir}

program_files_32_bit == <<"PF">>

vswhere_exe ==
    program_files_32_bit \o <<"Microsoft Visual Studio", "Installer", "vswhere.exe">>

vs140_program_files == program_files_32_bit \o <<"Microsoft Visual Studio 14.0">>

\* Installation roots that vswhere.exe may report.
Roots == {<<"A">>, <<"B">>}

ModernBuild(r) == r \o <<"VC", "Auxiliary", "Build">>
ModernSub(r, name) == r \o <<"VC", "Tools", "MSVC", name>>
HostBin(sub) == sub \o <<"bin", "HostX86", "x86">>
LegacyBin(r) == r \o <<"VC", "bin">>

\* The directory paths of a layout; every one of them also exists.
LayoutDirs(r, layout) ==
    CASE layout = "Complete" ->
            {ModernSub(r, "14.16"), ModernSub(r, "14.10"),
             HostBin(ModernSub(r, "14.16")) \o <<"1033">>,
             HostBin(ModernSub(r, "14.10")) \o <<"1033">>,
             LegacyBin(r) \o <<"1033">>}
      [] layout = "NoLocale" ->
            {ModernSub(r, "14.16"), ModernSub(r, "14.10"),
             HostBin(ModernSub(r, "14.10")) \o <<"1033">>}
      [] layout = "NoScript" ->
            {ModernSub(r, "14.16"),
             HostBin(ModernSub(r, "14.16")) \o <<"1033">>,
             LegacyBin(r) \o <<"1033">>}
      [] layout = "Partial" ->
            {ModernSub(r, "14.16"), ModernSub(r, "14.10"),
             HostBin(ModernSub(r, "14.10")) \o <<"1033">>,
             LegacyBin(r) \o <<"1033">>}
      [] layout = "Bare" ->
            {ModernSub(r, "14.16")}
      [] layout = "NoTools" ->
            {LegacyBin(r) \o <<"1033">>}
      [] layout = "Empty" -> {}

\* The regular files of a layout.
LayoutFiles(r, layout) ==
    CASE layout = "Complete" ->
            {ModernBuild(r) \o <<"vcvarsall.bat">>,
             ModernBuild(r) \o <<"vcvars32.bat">>,
             ModernBuild(r) \o <<"vcvars64.bat">>,
             HostBin(ModernSub(r, "14.16")) \o <<"dumpbin.exe">>,
             HostBin(ModernSub(r, "14.10")) \o <<"dumpbin.exe">>,
             r \o <<"VC", "vcvarsall.bat">>,
             LegacyBin(r) \o <<"vcvars32.bat">>,
             LegacyBin(r) \o <<"amd64", "vcvars64.bat">>,
             LegacyBin(r) \o <<"dumpbin.exe">>,
             LegacyBin(r) \o <<"cl.exe">>}
      [] layout = "NoLocale" ->
            {ModernBuild(r) \o <<"vcvarsall.bat">>,
             ModernBuild(r) \o <<"vcvars32.bat">>,
             HostBin(ModernSub(r, "14.16")) \o <<"dumpbin.exe">>,
             HostBin(ModernSub(r, "14.10")) \o <<"dumpbin.exe">>,
             r \o <<"VC", "vcvarsall.bat">>,
             LegacyBin(r) \o <<"vcvars32.bat">>,
             LegacyBin(r) \o <<"dumpbin.exe">>,
             LegacyBin(r) \o <<"cl.exe">>}
      [] layout = "NoScript" ->
            {ModernBuild(r) \o <<"vcvars32.bat">>,
             HostBin(ModernSub(r, "14.16")) \o <<"dumpbin.exe">>,
             LegacyBin(r) \o <<"vcvars32.bat">>,
             LegacyBin(r) \o <<"dumpbin.exe">>,
             LegacyBin(r) \o <<"cl.exe">>}
      [] layout = "Partial" ->
            {ModernBuild(r) \o <<"vcvarsall.bat">>,
             ModernBuild(r) \o <<"vcvarsx86_amd64.bat">>,
             ModernSub(r, "9.txt"),
             HostBin(ModernSub(r, "14.10")) \o <<"dumpbin.exe">>,
             r \o <<"VC", "vcvarsall.bat">>,
             LegacyBin(r) \o <<"x86_amd64", "vcvarsx86_amd64.bat">>,
             LegacyBin(r) \o <<"cl.exe">>}
      [] layout = "Bare" ->
            {ModernBuild(r) \o <<"vcvarsall.bat">>}
      [] layout = "NoTools" ->
            {ModernBuild(r) \o <<"vcvarsall.bat">>,
             ModernBuild(r) \o <<"vcvars32.bat">>,
             r \o <<"VC", "vcvarsall.bat">>,
             LegacyBin(r) \o <<"dumpbin.exe">>}
      [] layout = "Empty" -> {}

RootLayouts == {"Complete", "NoLocale", "NoScript", "Partial", "Bare", "NoTools"}

ProgramFilesLayouts == {"Complete", "Empty"}

(***************************************************************************)
(* Output of vswhere.exe: <instance> records with an optional              *)
(* <isPrerelease>, an <installationPath> and an <installationVersion>.     *)
(***************************************************************************)
VswhereEntries ==
    {[isPrerelease |-> e[1], installationVersion |-> e[2], installationPath |-> r] :
        e \in {<<"0", "16.0">>, <<"0", "15.9">>, <<"1", "15.9">>,
               <<"none", "14.0">>, <<"none", "12.0">>},
        r \in Roots}
    \cup {[isPrerelease |-> "2", installationVersion |-> "15.9",
            installationPath |-> <<"A">>]}

RECURSIVE SeqsUpTo(_, _)
SeqsUpTo(S, n) ==
    IF n = 0 THEN {<<>>}
    ELSE LET shorter == SeqsUpTo(S, n - 1)
         IN  shorter \cup {Append(s, x) : s \in shorter, x \in S}

VswhereOutputs == SeqsUpTo(VswhereEntries, MaxVswhereInstances)

\* Values of the environment variable vs140comntools (none: not set).
Vs140ComnTools ==
    {<<"none">>} \cup
    {r \o tail : r \in Roots, tail \in {<<"Common7", "Tools">>, <<"Common7", "Tools", "">>}}

(***************************************************************************)
(* get_visual_studio_instances                                             *)
(***************************************************************************)
\* The release type read from <isPrerelease> (absent: LEGACY).
release_type_of(entry) ==
    CASE entry.isPrerelease = "none" -> "LEGACY"
      [] entry.isPrerelease = "0"    -> "STABLE"
      [] entry.isPrerelease = "1"    -> "PRERELEASE"

\* An <isPrerelease> value for which the code calls Checks::unreachable.
flag_unreachable(entry) == entry.isPrerelease \notin {"none", "0", "1"}

RECURSIVE parse_instance_entries(_)
parse_instance_entries(instance_entries) ==
    IF instance_entries = <<>> THEN <<>>
    ELSE <<VisualStudioInstance(Head(instance_entries).installationPath,
                                Head(instance_entries).installationVersion,
                                release_type_of(Head(instance_entries)))>>
         \o parse_instance_entries(Tail(instance_entries))

\* Variant: the exit code of vswhere.exe is not checked.
vswhere_check_exit_ignored(exit_code) == TRUE

\* Checks::check_exit(code_and_output.exit_code == 0): TRUE when the run goes on.
vswhere_check_exit(exit_code) == exit_code = 0

\* The instances append_if_has_cl adds for one candidate root.
append_if_has_cl(path_root) ==
    LET cl_exe == path_root \o <<"VC", "bin", "cl.exe">>
        vcvarsall_bat == path_root \o <<"VC", "vcvarsall.bat">>
    IN  IF exists(cl_exe) /\ exists(vcvarsall_bat)
        THEN <<VisualStudioInstance(path_root, "14.0", "LEGACY")>>
        ELSE <<>>

\* The instances added from the environment variable vs140comntools.
vs140comntools_instances(maybe_vs140_comntools) ==
    IF maybe_vs140_comntools = <<"none">> THEN <<>>
    ELSE append_if_has_cl(parent_path(parent_path(maybe_vs140_comntools)))
         \o append_if_has_cl(parent_path(parent_path(parent_path(maybe_vs140_comntools))))

(***************************************************************************)
(* SortedVector<VisualStudioInstance>{instances, preferred_first_comparator}*)
(* The container's code is not part of the file; it is modelled as the     *)
(* stable sort the specification describes (an insertion sort that puts    *)
(* each instance after every instance it is not preferred to).             *)
(***************************************************************************)
RECURSIVE sorted_insert(_, _)
sorted_insert(s, x) ==
    IF s = <<>> THEN <<x>>
    ELSE IF preferred_first_comparator(x, Head(s)) THEN <<x>> \o s
    ELSE <<Head(s)>> \o sorted_insert(Tail(s), x)

RECURSIVE SortedVector(_)
SortedVector(v) ==
    IF v = <<>> THEN <<>>
    ELSE sorted_insert(SortedVector(SubSeq(v, 1, Len(v) - 1)), v[Len(v)])

\* Variant: a "12" instance also counts as making v140 available.
compute_v140_is_available_any_legacy(s) ==
    \E i \in 1..Len(s) : major_version(s[i]) \in {Chars["14"], Chars["12"]}

\* Util::find_if(sorted, major_version() == "14") != sorted.end()
compute_v140_is_available(s) ==
    \E i \in 1..Len(s) : major_version(s[i]) = Chars["14"]

(***************************************************************************)
(* Toolsets                                                                *)
(***************************************************************************)
Toolset(root, dumpbin, vcvarsall, vcvarsall_options, version, archs) ==
    [visual_studio_root_path |-> root, dumpbin |-> dumpbin, vcvarsall |-> vcvarsall,
     vcvarsall_options |-> vcvarsall_options, version |-> version,
     supported_architectures |-> archs]

ToolsetArchOption(name, host_arch, target_arch) ==
    [name |-> name, host_arch |-> host_arch, target_arch |-> target_arch]

\* The sub-script of each architecture, in the order the code probes them.
modern_architecture_menu ==
    << <<<<"vcvars32.bat">>, ToolsetArchOption("x86", "X86", "X86")>>,
       <<<<"vcvars64.bat">>, ToolsetArchOption("amd64", "X64", "X64")>>,
       <<<<"vcvarsx86_amd64.bat">>, ToolsetArchOption("x86_amd64", "X86", "X64")>>,
       <<<<"vcvarsx86_arm.bat">>, ToolsetArchOption("x86_arm", "X86", "ARM")>>,
       <<<<"vcvarsx86_arm64.bat">>, ToolsetArchOption("x86_arm64", "X86", "ARM64")>>,
       <<<<"vcvarsamd64_x86.bat">>, ToolsetArchOption("amd64_x86", "X64", "X86")>>,
       <<<<"vcvarsamd64_arm.bat">>, ToolsetArchOption("amd64_arm", "X64", "ARM")>>,
       <<<<"vcvarsamd64_arm64.bat">>, ToolsetArchOption("amd64_arm64", "X64", "ARM64")>> >>

legacy_architecture_menu ==
    << <<<<"vcvars32.bat">>, ToolsetArchOption("x86", "X86", "X86")>>,
       <<<<"amd64", "vcvars64.bat">>, ToolsetArchOption("x64", "X64", "X64")>>,
       <<<<"x86_amd64", "vcvarsx86_amd64.bat">>, ToolsetArchOption("x86_amd64", "X86", "X64")>>,
       <<<<"x86_arm", "vcvarsx86_arm.bat">>, ToolsetArchOption("x86_arm", "X86", "ARM")>>,
       <<<<"amd64_x86", "vcvarsamd64_x86.bat">>, ToolsetArchOption("amd64_x86", "X64", "X86")>>,
       <<<<"amd64_arm", "vcvarsamd64_arm.bat">>, ToolsetArchOption("amd64_arm", "X64", "ARM")>> >>

\* The options of a menu whose sub-script exists under dir, in menu order.
RECURSIVE supported_architectures(_, _)
supported_architectures(dir, menu) ==
    IF menu = <<>> THEN <<>>
    ELSE (IF exists(dir \o Head(menu)[1]) THEN <<Head(menu)[2]>> ELSE <<>>)
         \o supported_architectures(dir, Tail(menu))

\* dumpbin_path.parent_path() / "1033"
english_language_pack(dumpbin_path) == parent_path(dumpbin_path) \o <<"1033">>

(***************************************************************************)
(* find_toolset_instances_preferred_first: one iteration of the loop over  *)
(* sorted.  Each Resolve operator gives what the iteration appends to      *)
(* paths_examined, found_toolsets and excluded_toolsets, and whether it    *)
(* leaves the loop over sorted (stop).                                     *)
(***************************************************************************)
Outcome(examined, found, excluded, stop) ==
    [examined |-> examined, found |-> found, excluded |-> excluded, stop |-> stop]

\* std::sort of the subdirectories, latest (greatest filename) first.
RECURSIVE sort_latest_first(_)
sort_latest_first(S) ==
    IF S = {} THEN <<>>
    ELSE LET m == CHOOSE x \in S :
                    \A y \in S \ {x} : StringGreater(filename(x), filename(y))
         IN  <<m>> \o sort_latest_first(S \ {m})

msvc_subdirectories(vs_instance) ==
    sort_latest_first({p \in get_files_non_recursive(
                                vs_instance.root_path \o <<"VC", "Tools", "MSVC">>) :
                            is_directory(p)})

modern_dumpbin_path(subdir) == subdir \o <<"bin", "HostX86", "x86", "dumpbin.exe">>

\* Variant: the scan goes on past a subdirectory whose language pack is missing.
subdirectories_visited_until_language_pack(subdirs) ==
    IF \E k \in 1..Len(subdirs) :
            /\ (subdirs[k] \o <<"bin", "HostX86", "x86", "dumpbin.exe">>) \in files
            /\ (subdirs[k] \o <<"bin", "HostX86", "x86", "1033">>) \in files
    THEN CHOOSE k \in 1..Len(subdirs) :
            /\ (subdirs[k] \o <<"bin", "HostX86", "x86", "dumpbin.exe">>) \in files
            /\ (subdirs[k] \o <<"bin", "HostX86", "x86", "1033">>) \in files
            /\ \A j \in 1..(k - 1) :
                    ~(/\ (subdirs[j] \o <<"bin", "HostX86", "x86", "dumpbin.exe">>) \in files
                      /\ (subdirs[j] \o <<"bin", "HostX86", "x86", "1033">>) \in files)
    ELSE Len(subdirs)

\* Number of subdirectories the loop over msvc_subdirectories visits: it
\* breaks at the first one whose dumpbin.exe exists.
subdirectories_visited(subdirs) ==
    IF \E k \in 1..Len(subdirs) : exists(modern_dumpbin_path(subdirs[k]))
    THEN CHOOSE k \in 1..Len(subdirs) :
            /\ exists(modern_dumpbin_path(subdirs[k]))
            /\ \A j \in 1..(k - 1) : ~exists(modern_dumpbin_path(subdirs[j]))
    ELSE Len(subdirs)

\* Variant: the v140 toolset is pushed before the v141 toolset.
modern_found_v140_first(v141_toolset, v140_available) ==
    IF v140_available
    THEN <<Toolset(v141_toolset.visual_studio_root_path, v141_toolset.dumpbin,
                   v141_toolset.vcvarsall, <<"-vcvars_ver=14.0">>, V_140,
                   v141_toolset.supported_architectures),
           v141_toolset>>
    ELSE <<v141_toolset>>

\* What is pushed to found_toolsets for a v141 toolset whose language pack exists.
modern_found(v141_toolset, v140_available) ==
    IF v140_available
    THEN <<v141_toolset,
           Toolset(v141_toolset.visual_studio_root_path, v141_toolset.dumpbin,
                   v141_toolset.vcvarsall, <<"-vcvars_ver=14.0">>, V_140,
                   v141_toolset.supported_architectures)>>
    ELSE <<v141_toolset>>

resolve_modern(vs_instance, v140_available) ==
    LET vc_dir == vs_instance.root_path \o <<"VC">>
        vcvarsall_dir == vc_dir \o <<"Auxiliary", "Build">>
        vcvarsall_bat == vcvarsall_dir \o <<"vcvarsall.bat">>
        subdirs == msvc_subdirectories(vs_instance)
        n == subdirectories_visited(subdirs)
        probed == [k \in 1..n |-> modern_dumpbin_path(subdirs[k])]
        dumpbin_path == probed[n]
        v141_toolset == Toolset(vs_instance.root_path, dumpbin_path, vcvarsall_bat, <<>>,
                                V_141,
                                supported_architectures(vcvarsall_dir,
                                                        modern_architecture_menu))
    IN  IF ~exists(vcvarsall_bat)
        THEN Outcome(<<vcvarsall_bat>>, <<>>, <<>>, FALSE)
        ELSE IF n = 0 \/ ~exists(dumpbin_path)
        THEN Outcome(<<vcvarsall_bat>> \o probed, <<>>, <<>>, FALSE)
        ELSE IF ~exists(english_language_pack(dumpbin_path))
        THEN Outcome(<<vcvarsall_bat>> \o probed, <<>>, <<v141_toolset>>, FALSE)
        ELSE Outcome(<<vcvarsall_bat>> \o probed,
                     modern_found(v141_toolset, v140_available), <<>>, FALSE)

\* Variant: the legacy branch goes on to the next instance after an exclusion.
legacy_exclusion_continues == FALSE

\* Whether the legacy branch leaves the loop over sorted after excluding a toolset.
legacy_exclusion_breaks == TRUE

\* Variant: the legacy branch probes the modern location of vcvarsall.bat.
legacy_vcvarsall_bat_modern_location(root_path) ==
    root_path \o <<"VC", "Auxiliary", "Build", "vcvarsall.bat">>

\* vs_instance.root_path / "VC" / "vcvarsall.bat"
legacy_vcvarsall_bat(root_path) == root_path \o <<"VC", "vcvarsall.bat">>

\* Variant: the language pack is not checked before a legacy toolset is found.
legacy_language_pack_missing_unchecked(vs_dumpbin_exe) == FALSE

\* !fs.exists(english_language_pack) of the legacy branch
legacy_language_pack_missing(vs_dumpbin_exe) ==
    ~exists(english_language_pack(vs_dumpbin_exe))

resolve_legacy(vs_instance) ==
    LET vcvarsall_bat == legacy_vcvarsall_bat(vs_instance.root_path)
        vs_dumpbin_exe == vs_instance.root_path \o <<"VC", "bin", "dumpbin.exe">>
        vs_bin_dir == parent_path(vcvarsall_bat) \o <<"bin">>
        toolset == Toolset(vs_instance.root_path, vs_dumpbin_exe, vcvarsall_bat, <<>>,
                           IF major_version(vs_instance) = Chars["14"]
                           THEN V_140 ELSE V_120,
                           supported_architectures(vs_bin_dir, legacy_architecture_menu))
    IN  IF ~exists(vcvarsall_bat)
        THEN Outcome(<<vcvarsall_bat>>, <<>>, <<>>, FALSE)
        ELSE IF ~exists(vs_dumpbin_exe)
        THEN Outcome(<<vcvarsall_bat, vs_dumpbin_exe>>, <<>>, <<>>, FALSE)
        ELSE IF legacy_language_pack_missing(vs_dumpbin_exe)
        THEN Outcome(<<vcvarsall_bat, vs_dumpbin_exe>>, <<>>, <<toolset>>,
                     legacy_exclusion_breaks)
        ELSE Outcome(<<vcvarsall_bat, vs_dumpbin_exe>>, <<toolset>>, <<>>, FALSE)

is_modern(vs_instance) == major_version(vs_instance) = Chars["15"]

\* Variant: every instance that is not modern takes the legacy branch.
is_legacy_unconditional(vs_instance) == TRUE

is_legacy(vs_instance) ==
    major_version(vs_instance) = Chars["14"] \/ major_version(vs_instance) = Chars["12"]

(***************************************************************************)
(* The state machine                                                       *)
(***************************************************************************)
Filesystem(la, lb, lp, vswhere) ==
    [files |-> LayoutFiles(<<"A">>, la) \cup LayoutDirs(<<"A">>, la)
               \cup LayoutFiles(<<"B">>, lb) \cup LayoutDirs(<<"B">>, lb)
               \cup LayoutFiles(vs140_program_files, lp)
               \cup LayoutDirs(vs140_program_files, lp)
               \cup (IF vswhere THEN {vswhere_exe} ELSE {}),
     dirs  |-> LayoutDirs(<<"A">>, la) \cup LayoutDirs(<<"B">>, lb)
               \cup LayoutDirs(vs140_program_files, lp)]

Init ==
    /\ \E la \in RootLayouts, lb \in RootLayouts, lp \in ProgramFilesLayouts,
          vswhere \in BOOLEAN :
            /\ files = Filesystem(la, lb, lp, vswhere).files
            /\ dirs = Filesystem(la, lb, lp, vswhere).dirs
    /\ pc = "vswhere"
    /\ code_and_output = [ran |-> FALSE, exit_code |-> 0, output |-> <<>>]
    /\ instances = <<>>
    /\ sorted = <<>>
    /\ v140_is_available = FALSE
    /\ idx = 0
    /\ paths_examined = <<>>
    /\ found_toolsets = <<>>
    /\ excluded_toolsets = <<>>
    /\ warning = <<>>
    /\ error_paths = <<>>
    /\ result = <<>>

\* get_visual_studio_instances, "Instances from vswhere"
RunVswhere ==
    /\ pc = "vswhere"
    /\ IF ~exists(vswhere_exe)
       THEN /\ pc' = "legacy"
            /\ UNCHANGED <<instances, code_and_output>>
       ELSE \E exit_code \in {0, 1}, output \in VswhereOutputs :
            /\ code_and_output' = [ran |-> TRUE, exit_code |-> exit_code, output |-> output]
            /\ IF ~vswhere_check_exit(exit_code)
               THEN /\ pc' = "vswhere_failed"
                    /\ UNCHANGED instances
               ELSE IF \E i \in 1..Len(output) : flag_unreachable(output[i])
               THEN /\ pc' = "unreachable"
                    /\ UNCHANGED instances
               ELSE /\ pc' = "legacy"
                    /\ instances' = parse_instance_entries(output)
    /\ UNCHANGED <<files, dirs, sorted, v140_is_available, idx, paths_examined,
                   found_toolsets, excluded_toolsets, warning, error_paths, result>>

\* get_visual_studio_instances, the VS2015 instances from the environment
\* variable and from Program Files
ProbeLegacy ==
    /\ pc = "legacy"
    /\ \E maybe_vs140_comntools \in Vs140ComnTools :
          instances' = instances \o vs140comntools_instances(maybe_vs140_comntools)
                                 \o append_if_has_cl(vs140_program_files)
    /\ pc' = "sort"
    /\ UNCHANGED <<files, dirs, code_and_output, sorted, v140_is_available, idx, paths_examined,
                   found_toolsets, excluded_toolsets, warning, error_paths, result>>

\* construction of sorted and of v140_is_available
Rank ==
    /\ pc = "sort"
    /\ sorted' = SortedVector(instances)
    /\ v140_is_available' = compute_v140_is_available(SortedVector(instances))
    /\ idx' = 1
    /\ pc' = IF instances = <<>> THEN "report" ELSE "loop"
    /\ UNCHANGED <<files, dirs, code_and_output, instances, paths_examined, found_toolsets,
                   excluded_toolsets, warning, error_paths, result>>

\* The effect of one iteration with the given outcome.
Iterate(outcome) ==
    /\ paths_examined' = paths_examined \o outcome.examined
    /\ found_toolsets' = found_toolsets \o outcome.found
    /\ excluded_toolsets' = excluded_toolsets \o outcome.excluded
    /\ IF outcome.stop
       THEN /\ pc' = "report"
            /\ UNCHANGED idx
       ELSE /\ idx' = idx + 1
            /\ pc' = IF idx = Len(sorted) THEN "report" ELSE "loop"
    /\ UNCHANGED <<files, dirs, code_and_output, instances, sorted, v140_is_available, warning,
                   error_paths, result>>

\* loop body, major_version == "15"
ResolveModern ==
    /\ pc = "loop"
    /\ is_modern(sorted[idx])
    /\ Iterate(resolve_modern(sorted[idx], v140_is_available))

\* loop body, major_version == "14" || major_version == "12"
ResolveLegacy ==
    /\ pc = "loop"
    /\ ~is_modern(sorted[idx])
    /\ is_legacy(sorted[idx])
    /\ Iterate(resolve_legacy(sorted[idx]))

\* loop body, any other major_version
PassOver ==
    /\ pc = "loop"
    /\ ~is_modern(sorted[idx])
    /\ ~is_legacy(sorted[idx])
    /\ Iterate(Outcome(<<>>, <<>>, <<>>, FALSE))

\* Variant: the function fails only when nothing was excluded either.
no_toolset_found_nor_excluded(found) == found = <<>> /\ excluded_toolsets = <<>>

\* Whether the function ends in Checks::exit_fail.
no_toolset_found(found) == found = <<>>

\* the warning, the error and the return after the loop
Report ==
    /\ pc = "report"
    /\ warning' = [i \in 1..Len(excluded_toolsets) |->
                        excluded_toolsets[i].visual_studio_root_path]
    /\ IF no_toolset_found(found_toolsets)
       THEN /\ error_paths' = paths_examined
            /\ pc' = "exit_fail"
            /\ UNCHANGED result
       ELSE /\ result' = found_toolsets
            /\ pc' = "returned"
            /\ UNCHANGED error_paths
    /\ UNCHANGED <<files, dirs, code_and_output, instances, sorted, v140_is_available, idx,
                   paths_examined, found_toolsets, excluded_toolsets>>

Next ==
    \/ RunVswhere
    \/ ProbeLegacy
    \/ Rank
    \/ ResolveModern
    \/ ResolveLegacy
    \/ PassOver
    \/ Report

Spec == Init /\ [][Next]_vars

(***************************************************************************)
(* Properties                                                              *)
(***************************************************************************)
Last(s) == s[Len(s)]

\* What a sequence gained with respect to an earlier value of it.
Gained(new, old) == SubSeq(new, Len(old) + 1, Len(new))

Extends(new, old) == Len(new) >= Len(old) /\ SubSeq(new, 1, Len(old)) = old

Range(s) == {s[i] : i \in 1..Len(s)}

\* The generation of an instance, read off its version text.
ModernTag(inst) == inst.version = "15.9"
Tag14(inst) == inst.version = "14.0"
Tag12(inst) == inst.version = "12.0"
LegacyTag(inst) == Tag14(inst) \/ Tag12(inst)
OtherTag(inst) == inst.version = "16.0"

AfterLoop == pc \in {"report", "returned", "exit_fail"}

LegacyScript(root) == root \o <<"VC", "vcvarsall.bat">>
LegacyTool(root) == root \o <<"VC", "bin", "dumpbin.exe">>
LegacyLocale(root) == root \o <<"VC", "bin", "1033">>
ModernScript(root) == root \o <<"VC", "Auxiliary", "Build", "vcvarsall.bat">>
ModernTool(sub) == sub \o <<"bin", "HostX86", "x86", "dumpbin.exe">>
ModernLocale(sub) == sub \o <<"bin", "HostX86", "x86", "1033">>

\* The toolchain-version subdirectories of a root.
ToolchainDirs(root) ==
    {d \in dirs : Len(d) = Len(root) + 4
                  /\ SubSeq(d, 1, Len(root) + 3) = root \o <<"VC", "Tools", "MSVC">>}

\* Those that contain the inspection tool, and the latest of them.
ToolchainDirsWithTool(root) == {d \in ToolchainDirs(root) : ModernTool(d) \in files}

LatestWithTool(root) ==
    CHOOSE d \in ToolchainDirsWithTool(root) :
        \A e \in ToolchainDirsWithTool(root) \ {d} :
            StringGreater(filename(d), filename(e))

\* An instance that resolves to a toolset.
FullyValid(inst) ==
    \/ /\ LegacyTag(inst)
       /\ {LegacyScript(inst.root_path), LegacyTool(inst.root_path),
           LegacyLocale(inst.root_path)} \subseteq files
    \/ /\ ModernTag(inst)
       /\ ModernScript(inst.root_path) \in files
       /\ ToolchainDirsWithTool(inst.root_path) # {}
       /\ ModernLocale(LatestWithTool(inst.root_path)) \in files

----------------------------------------------------------------------------
\* C1: every toolset of found_toolsets, whatever its tag (v141, v140, v120),
\* has an existing vcvarsall.bat, an existing dumpbin.exe and an existing
\* "1033" folder next to dumpbin.exe; a candidate whose "1033" folder is
\* absent is in excluded_toolsets only.
C1_FoundToolsetsComplete ==
    /\ \A i \in 1..Len(found_toolsets) :
          LET t == found_toolsets[i]
          IN  /\ t.version \in {"v141", "v140", "v120"}
              /\ filename(t.vcvarsall) = "vcvarsall.bat"
              /\ filename(t.dumpbin) = "dumpbin.exe"
              /\ t.vcvarsall \in files
              /\ t.dumpbin \in files
              /\ (parent_path(t.dumpbin) \o <<"1033">>) \in files
    /\ \A i \in 1..Len(excluded_toolsets) :
          LET t == excluded_toolsets[i]
          IN  /\ t.dumpbin \in files
              /\ (parent_path(t.dumpbin) \o <<"1033">>) \notin files

C1_Witness ==
    /\ pc = "returned"
    /\ excluded_toolsets # <<>>
    /\ \E i \in 1..Len(found_toolsets) : found_toolsets[i].version = "v141"
    /\ \E i \in 1..Len(found_toolsets) :
          /\ found_toolsets[i].version = "v140"
          /\ found_toolsets[i].vcvarsall_options = <<>>

----------------------------------------------------------------------------
\* C2: a legacy instance ("14" or "12") with vcvarsall.bat and dumpbin.exe but
\* no "1033" folder is recorded in excluded_toolsets and the loop over sorted
\* ends in that step; once the loop has ended nothing is added to
\* found_toolsets, excluded_toolsets or paths_examined.
C2_LegacyExclusionEndsLoop ==
    [][/\ (/\ pc = "loop"
           /\ LegacyTag(sorted[idx])
           /\ LegacyScript(sorted[idx].root_path) \in files
           /\ LegacyTool(sorted[idx].root_path) \in files
           /\ LegacyLocale(sorted[idx].root_path) \notin files)
          => /\ pc' = "report"
             /\ idx' = idx
             /\ found_toolsets' = found_toolsets
             /\ Len(excluded_toolsets') = Len(excluded_toolsets) + 1
             /\ Extends(excluded_toolsets', excluded_toolsets)
             /\ Last(excluded_toolsets').visual_studio_root_path = sorted[idx].root_path
             /\ Last(excluded_toolsets').dumpbin = LegacyTool(sorted[idx].root_path)
       /\ AfterLoop
          => /\ AfterLoop'
             /\ UNCHANGED <<found_toolsets, excluded_toolsets, paths_examined, idx>>
      ]_vars

C2_Witness ==
    /\ AfterLoop
    /\ idx < Len(sorted)
    /\ LegacyTag(sorted[idx])
    /\ Len(excluded_toolsets) = 1
    /\ excluded_toolsets[1].visual_studio_root_path = sorted[idx].root_path
    /\ \E j \in (idx + 1)..Len(sorted) :
          /\ FullyValid(sorted[j])
          /\ \A i \in 1..Len(found_toolsets) :
                found_toolsets[i].visual_studio_root_path # sorted[j].root_path

----------------------------------------------------------------------------
\* C3: for a modern instance ("15") whose vcvarsall.bat exists, the scan of
\* the toolchain-version subdirectories, latest first, stops at the first one
\* that contains dumpbin.exe: no dumpbin.exe of an older subdirectory is
\* probed; if that subdirectory has no "1033" folder the instance adds one
\* record to excluded_toolsets and none to found_toolsets, and the loop goes
\* on to the next instance.
C3_ModernScanStopsAtFirstTool ==
    [][(/\ pc = "loop"
        /\ ModernTag(sorted[idx])
        /\ ModernScript(sorted[idx].root_path) \in files
        /\ ToolchainDirsWithTool(sorted[idx].root_path) # {})
       => LET root == sorted[idx].root_path
              first == LatestWithTool(root)
              probed == Gained(paths_examined', paths_examined)
          IN  /\ Extends(paths_examined', paths_examined)
              /\ probed # <<>>
              /\ Last(probed) = ModernTool(first)
              /\ \A d \in ToolchainDirs(root) :
                    StringGreater(filename(first), filename(d))
                        => ModernTool(d) \notin Range(probed)
              /\ ModernLocale(first) \notin files
                    => /\ found_toolsets' = found_toolsets
                       /\ Len(excluded_toolsets') = Len(excluded_toolsets) + 1
                       /\ Extends(excluded_toolsets', excluded_toolsets)
                       /\ Last(excluded_toolsets').dumpbin = ModernTool(first)
                       /\ Last(excluded_toolsets').visual_studio_root_path = root
                       /\ idx' = idx + 1
                       /\ pc' = IF idx < Len(sorted) THEN "loop" ELSE "report"
      ]_vars

C3_Witness ==
    /\ pc = "loop"
    /\ idx > 1
    /\ ModernTag(sorted[idx - 1])
    /\ found_toolsets = <<>>
    /\ Len(excluded_toolsets) = 1
    /\ excluded_toolsets[1].visual_studio_root_path = sorted[idx - 1].root_path
    /\ \E d \in ToolchainDirsWithTool(sorted[idx - 1].root_path) :
          /\ d # LatestWithTool(sorted[idx - 1].root_path)
          /\ ModernLocale(d) \in files
          /\ ModernTool(d) \notin Range(paths_examined)

----------------------------------------------------------------------------
\* C4: sorted is the stable sort of instances by release type (STABLE before
\* PRERELEASE before LEGACY), then by version text descending: it is the
\* concatenation, over the keys in that order, of the instances that have the
\* key, each group in discovery order.
RankedKeys ==
    [k \in 1..12 |->
        [release_type |-> <<"STABLE", "PRERELEASE", "LEGACY">>[((k - 1) \div 4) + 1],
         version |-> <<"16.0", "15.9", "14.0", "12.0">>[((k - 1) % 4) + 1]]]

WithKey(v, key) ==
    LET has(inst) == inst.release_type = key.release_type /\ inst.version = key.version
    IN  SelectSeq(v, has)

RECURSIVE GroupsFrom(_, _)
GroupsFrom(v, k) ==
    IF k > Len(RankedKeys) THEN <<>>
    ELSE WithKey(v, RankedKeys[k]) \o GroupsFrom(v, k + 1)

----------------------------------------------------------------------------
\* C5: a modern instance that yields a v141 toolset yields a second toolset,
\* tagged v140 and equal to the first but for the one extra argument
\* "-vcvars_ver=14.0", if and only if some instance of sorted has major tag
\* "14"; an instance of another generation yields at most one toolset.
C5_SecondToolsetIffV140 ==
    [][pc = "loop"
       => LET new == Gained(found_toolsets', found_toolsets)
          IN  /\ Extends(found_toolsets', found_toolsets)
              /\ IF ModernTag(sorted[idx])
                 THEN /\ Len(new) <= 2
                      /\ Len(new) >= 1
                            => /\ new[1].version = "v141"
                               /\ new[1].vcvarsall_options = <<>>
                               /\ Len(new) = 2
                                    <=> \E i \in 1..Len(sorted) : Tag14(sorted[i])
                      /\ Len(new) = 2
                            => new[2] = [new[1] EXCEPT
                                            !.version = "v140",
                                            !.vcvarsall_options = <<"-vcvars_ver=14.0">>]
                 ELSE Len(new) <= 1
      ]_vars

C5_Witness ==
    /\ pc = "returned"
    /\ \E i \in 1..Len(sorted) : Tag14(sorted[i])
    /\ \E i \in 1..(Len(found_toolsets) - 1) :
          /\ found_toolsets[i].version = "v141"
          /\ found_toolsets[i + 1].version = "v140"
          /\ found_toolsets[i + 1].vcvarsall_options = <<"-vcvars_ver=14.0">>
          /\ found_toolsets[i + 1].supported_architectures # <<>>

----------------------------------------------------------------------------
\* C6: after the loop (completed or cut short) the function ends in the fatal
\* exit, having listed every entry of paths_examined, exactly when
\* found_toolsets is empty; otherwise it returns found_toolsets, so a returned
\* list is never empty; a non-empty excluded_toolsets only gives the warning.
C6_FatalIffNothingFound ==
    /\ pc = "exit_fail"
          => /\ found_toolsets = <<>>
             /\ error_paths = paths_examined
             /\ result = <<>>
    /\ pc = "returned"
          => /\ found_toolsets # <<>>
             /\ result = found_toolsets
             /\ error_paths = <<>>
    /\ pc \in {"exit_fail", "returned"}
          => /\ Len(warning) = Len(excluded_toolsets)
             /\ \A i \in 1..Len(warning) :
                    warning[i] = excluded_toolsets[i].visual_studio_root_path
    /\ pc \notin {"exit_fail", "returned"}
          => warning = <<>> /\ error_paths = <<>> /\ result = <<>>

C6_Witness ==
    /\ pc = "exit_fail"
    /\ idx < Len(sorted)
    /\ warning # <<>>
    /\ error_paths # <<>>
    /\ \E j \in (idx + 1)..Len(sorted) : FullyValid(sorted[j])

----------------------------------------------------------------------------
\* C7: a legacy instance ("14" or "12") whose vcvarsall.bat is missing adds
\* nothing to found_toolsets or excluded_toolsets, its vcvarsall.bat path is
\* appended to paths_examined, and the loop goes on to the next instance.
C7_LegacyMissingScriptSkipsInstance ==
    [][(/\ pc = "loop"
        /\ LegacyTag(sorted[idx])
        /\ LegacyScript(sorted[idx].root_path) \notin files)
       => /\ found_toolsets' = found_toolsets
          /\ excluded_toolsets' = excluded_toolsets
          /\ paths_examined' = Append(paths_examined, LegacyScript(sorted[idx].root_path))
          /\ idx' = idx + 1
          /\ pc' = IF idx < Len(sorted) THEN "loop" ELSE "report"
      ]_vars

C7_Witness ==
    /\ pc = "loop"
    /\ idx > 1
    /\ LegacyTag(sorted[idx - 1])
    /\ LegacyScript(sorted[idx - 1].root_path) \notin files
    /\ LegacyTool(sorted[idx - 1].root_path) \in files
    /\ Last(paths_examined) = LegacyScript(sorted[idx - 1].root_path)
    /\ FullyValid(sorted[idx])

----------------------------------------------------------------------------
\* C8: found_toolsets is preferred-first: its toolsets can be assigned, in
\* order, to instances at non-decreasing positions of sorted (same root, tag
\* of the instance's generation), and a v140 toolset made from a modern
\* instance directly follows the v141 toolset of that instance.
FromInstance(t, inst) ==
    /\ t.visual_studio_root_path = inst.root_path
    /\ \/ ModernTag(inst) /\ t.version = "v141"
       \/ ModernTag(inst) /\ t.version = "v140" /\ t.vcvarsall_options # <<>>
       \/ Tag14(inst) /\ t.version = "v140" /\ t.vcvarsall_options = <<>>
       \/ Tag12(inst) /\ t.version = "v120"

RECURSIVE InRankedOrder(_, _)
InRankedOrder(toolsets, from) ==
    IF toolsets = <<>> THEN TRUE
    ELSE \E k \in from..Len(sorted) :
            /\ FromInstance(Head(toolsets), sorted[k])
            /\ InRankedOrder(Tail(toolsets), k)

C8_FoundIsPreferredFirst ==
    /\ InRankedOrder(found_toolsets, 1)
    /\ \A i \in 1..Len(found_toolsets) :
          (found_toolsets[i].version = "v140" /\ found_toolsets[i].vcvarsall_options # <<>>)
             => /\ i > 1
                /\ found_toolsets[i - 1] =
                      [found_toolsets[i] EXCEPT !.version = "v141",
                                                !.vcvarsall_options = <<>>]

C8_Witness ==
    /\ pc = "returned"
    /\ Len(result) >= 4
    /\ result[1].version = "v141"
    /\ result[2].version = "v140"
    /\ result[3].version = "v141"
    /\ result[1].visual_studio_root_path # result[3].visual_studio_root_path
    /\ sorted[1].release_type # sorted[2].release_type

----------------------------------------------------------------------------
\* C9: when vswhere.exe exists and its run returns a non-zero exit code the
\* run is over: no instance is parsed, the legacy probes are not performed,
\* nothing is resolved or returned; when vswhere.exe is absent it contributes
\* no instance, there is no error, and the legacy probes still run.
ProbeFinds(root) ==
    {root \o <<"VC", "bin", "cl.exe">>, root \o <<"VC", "vcvarsall.bat">>} \subseteq files

C9_VswhereFailureAborts ==
    /\ (code_and_output.ran /\ code_and_output.exit_code # 0)
          => /\ vswhere_exe \in files
             /\ pc = "vswhere_failed"
             /\ instances = <<>>
             /\ sorted = <<>>
             /\ paths_examined = <<>>
             /\ found_toolsets = <<>>
             /\ excluded_toolsets = <<>>
             /\ result = <<>>
    /\ pc = "vswhere_failed" => (code_and_output.ran /\ code_and_output.exit_code # 0)
    /\ (vswhere_exe \notin files)
          => /\ pc \notin {"vswhere_failed", "unreachable"}
             /\ ~code_and_output.ran
             /\ \A i \in 1..Len(instances) :
                    /\ instances[i].version = "14.0"
                    /\ instances[i].release_type = "LEGACY"
                    /\ ProbeFinds(instances[i].root_path)
             /\ (pc \notin {"vswhere", "legacy"} /\ ProbeFinds(vs140_program_files))
                    => /\ instances # <<>>
                       /\ Last(instances).root_path = vs140_program_files

C9_Witness ==
    /\ pc = "vswhere_failed"
    /\ Len(code_and_output.output) = 2
    /\ FullyValid([root_path |-> code_and_output.output[1].installationPath,
                    version |-> code_and_output.output[1].installationVersion])
    /\ ProbeFinds(vs140_program_files)

----------------------------------------------------------------------------
\* C10: an instance whose major tag is none of "15", "14", "12" is passed
\* over: it adds nothing to found_toolsets, excluded_toolsets or
\* paths_examined, the loop goes on, and it does not make v140 available; if
\* every instance is of this kind the run ends in the fatal exit with nothing
\* in paths_examined.
C10_OtherTagPassedOver ==
    [][/\ (pc = "loop" /\ OtherTag(sorted[idx]))
          => /\ UNCHANGED <<found_toolsets, excluded_toolsets, paths_examined>>
             /\ idx' = idx + 1
             /\ pc' = IF idx < Len(sorted) THEN "loop" ELSE "report"
       /\ pc = "sort"
          => (v140_is_available' <=> \E i \in 1..Len(sorted') : Tag14(sorted'[i]))
       /\ (pc = "report" /\ \A i \in 1..Len(sorted) : OtherTag(sorted[i]))
          => /\ pc' = "exit_fail"
             /\ error_paths' = <<>>
             /\ paths_examined' = <<>>
      ]_vars

C10_Witness ==
    /\ pc = "exit_fail"
    /\ Len(sorted) = 2
    /\ \A i \in 1..Len(sorted) : OtherTag(sorted[i])
    /\ ModernScript(sorted[1].root_path) \in files
    /\ LegacyScript(sorted[2].root_path) \in files
    /\ error_paths = <<>>

====
